---- MODULE Spec2Model ----
(***************************************************************************)
(* State-machine model of the account, profile, device and activity-log    *)
(* handlers of the mikro-radius-dashboard server.                          *)
(*                                                                         *)
(* Every handler is an async function whose only suspension points are its *)
(* `await db...execute()` statements.  One step of a handler is therefore  *)
(* one database statement together with the synchronous code that follows  *)
(* it up to the next statement (or up to the return / throw).  A request   *)
(* is served by a process p whose position is pc[p].                       *)
(*                                                                         *)
(*   Spec      requests are served one at a time, by process p1: a request *)
(*             is accepted only when no other request is in progress.      *)
(*   SpecConc  requests are accepted at any time, so the statements of two *)
(*             handlers interleave.                                        *)
(*   SpecDev   the device requests, served one at a time while the clock   *)
(*             advances.                                                   *)
(*   SpecAll   every operation, served one at a time on one account, one   *)
(*             profile and one device; the insert into activity_logs of    *)
(*             createRadiusUser may fail.                                  *)
(*   SpecDevConc  the device requests, served concurrently.                *)
(*   SpecProf  creation, update and listing of profiles with their         *)
(*             columns, served one at a time while the clock advances.     *)
(*   SpecLog   accounts are created and updated and the activity log is    *)
(*             queried, one request at a time while the clock advances.    *)
(*                                                                         *)
(* Strings that are built or taken apart by the code (stored password      *)
(* hashes, error messages) are sequences of tokens, so that formatting     *)
(* and `split(':')` are computed rather than assumed.  pbkdf2 and md5 are  *)
(* idealised as injective symbolic terms; randomBytes(32) is idealised as  *)
(* a source that never returns the same value twice.                       *)
(* A nullable number is <<>> or <<n>>; a price is counted in hundredths    *)
(* and the text of a numeric column is the tuple of its integer part and   *)
(* its fraction digits, so that toString, the scale of the column and      *)
(* parseFloat are computed.                                                *)
(***************************************************************************)
EXTENDS Integers, Sequences, FiniteSets, TLC

\* ------------------------------------------------------------------ bounds
MaxUsers == 3       \* ids the radius_users serial may hand out
MaxProfiles == 1    \* ids the radius_profiles serial may hand out
MaxLogs == 3        \* rows the activity_logs table may receive
MaxDevices == 2     \* ids the mikrotik_devices serial may hand out
MaxClock == 2       \* the latest reading of the clock

Procs == {"p1", "p2"}
Usernames == {"alice", "bob"}
Passwords == {<<"pwA">>, <<"pwB">>}
ProfileIdArgs == 1..(MaxProfiles + 1)   \* includes an id that never exists
UserIdArgs == 1..MaxUsers               \* an id is unused until the serial reaches it
StatusArgs == {"suspended"}
NULL == "NULL"                          \* SQL null / JavaScript null
FullNames == {"Bo", NULL}               \* full_name is a nullable column
UpdateFields == {"password", "profile_id", "status"}

\* A nullable number is <<>> (null) or <<n>>.  A price n is counted in
\* hundredths, so that 2999 is 29.99.
NullNumber == <<>>

ProfileUpdateFields == {"name", "upload_speed", "session_timeout", "price"}

\* the one profile the specifications about accounts create: 1024 kbps, a
\* session timeout of 3600 s, a price of 29.99; and the one update of it,
\* which sets the price it has
OneProfile ==
  [profileNames |-> {"basic"}, speeds |-> {1024}, timeouts |-> {<<3600>>},
   prices |-> {<<2999>>},
   newProfileNames |-> {"pro"}, newSpeeds |-> {2048}, newTimeouts |-> {<<0>>},
   newPrices |-> {<<2999>>}, profilePresent |-> {{"price"}}]

\* the requests of SpecProf: profiles are created with a session timeout, at
\* a price of 29.99, 29.90, 0 or null; the profile with id 1 is updated in its
\* name and speed, its timeout, its price, or in none or all of them, to a
\* timeout and a price that may be 0 or null
ProfArgs ==
  [procs |-> {"p1"}, exclusive |-> TRUE, profileIds |-> {1},
   profileNames |-> {"basic"}, speeds |-> {1024}, timeouts |-> {<<3600>>},
   prices |-> {<<2999>>, <<2990>>, <<0>>, NullNumber},
   newProfileNames |-> {"pro"}, newSpeeds |-> {2048},
   newTimeouts |-> {<<0>>, NullNumber},
   newPrices |-> {<<1050>>, <<0>>, NullNumber},
   profilePresent |-> {{}, {"name", "upload_speed"}, {"session_timeout"},
                       {"price"}, ProfileUpdateFields}]

\* the filters of SpecLog: on the default page, a username that is absent,
\* 'alice' or '', an action that is absent or account_created, and bounds on
\* the creation time that are absent or 1; and pages of one entry at offset 0
\* and 1, of the whole log and of the entries of alice
Filters ==
  [username : {<<>>, <<"alice">>, <<"">>}, action : {<<>>, <<"account_created">>},
   start_date : {<<>>, <<1>>}, end_date : {<<>>, <<1>>},
   limit : {<<>>}, offset : {<<>>}]
  \cup
  [username : {<<>>, <<"alice">>}, action : {<<>>},
   start_date : {<<>>}, end_date : {<<>>},
   limit : {<<1>>}, offset : {<<>>, <<1>>}]

\* the requests of SpecLog: accounts alice and bob are created and the account
\* with id 1 is updated, which writes the log; the log is queried
LogArgs ==
  [procs |-> {"p1"}, exclusive |-> TRUE,
   usernames |-> Usernames, passwords |-> {<<"pwA">>},
   profileIds |-> {1}, userIds |-> {1},
   fullNames |-> {"Al"}, newFullNames |-> FullNames,
   present |-> {{"profile_id"}}, filters |-> Filters] @@ OneProfile

\* the requests of Spec: any request, admitted when no other is in progress
Args ==
  [procs |-> {"p1"}, exclusive |-> TRUE,
   usernames |-> Usernames, passwords |-> Passwords,
   profileIds |-> ProfileIdArgs, userIds |-> UserIdArgs,
   fullNames |-> {"Al"}, newFullNames |-> FullNames,
   present |-> SUBSET UpdateFields] @@ OneProfile

\* the requests of SpecConc: requests that contend for the same rows, admitted
\* at any time
ConcArgs ==
  [procs |-> Procs, exclusive |-> FALSE,
   usernames |-> {"alice"}, passwords |-> {<<"pwA">>},
   profileIds |-> {1}, userIds |-> {1},
   fullNames |-> {"Al"}, newFullNames |-> FullNames,
   present |-> {{"password"}, {"profile_id"}, {"status"}}] @@ OneProfile

\* the requests of SpecDev: device requests, admitted when no other is in
\* progress; devices are registered as r1 at an address for each outcome of
\* the connection check, and the device with id 1 is updated and refreshed
DevArgs ==
  [procs |-> {"p1"}, exclusive |-> TRUE,
   names |-> {"r1"},
   ipAddresses |-> {"192.168.1.1", "192.168.1.999", "192.168.1.500"},
   deviceIds |-> {1},
   newNames |-> {"r2"}, newIpAddresses |-> {"192.168.1.500"}]

\* the requests of SpecDevConc: requests on the device with id 1, admitted at
\* any time
DevConcArgs ==
  [procs |-> Procs, exclusive |-> FALSE,
   names |-> {"r1"}, ipAddresses |-> {"192.168.1.1"}, deviceIds |-> {1},
   newNames |-> {"r2"}, newIpAddresses |-> {"192.168.1.500"}]

\* the requests of SpecAll: every operation on one account, one profile and
\* one device, admitted when no other is in progress; an account is created
\* with a full_name, and an update may set full_name or null it
AllArgs ==
  [procs |-> {"p1"}, exclusive |-> TRUE,
   usernames |-> {"alice"}, passwords |-> {<<"pwA">>},
   profileIds |-> {1, MaxProfiles + 1}, userIds |-> {1},
   fullNames |-> {"Al"}, newFullNames |-> FullNames,
   present |-> SUBSET (UpdateFields \cup {"full_name"}),
   names |-> {"r1"}, ipAddresses |-> {"192.168.1.1"}, deviceIds |-> {1},
   newNames |-> {"r1"}, newIpAddresses |-> {"192.168.1.1"}] @@ OneProfile

VARIABLES
  profiles,      \* radius_profiles: set of ids of the rows present
  profileCols,   \* radius_profiles: profileCols[id] = the other columns of row id
  nextProfileId, \* radius_profiles.id serial
  users,         \* radius_users: set of rows
  nextUserId,    \* radius_users.id serial
  logs,          \* activity_logs: sequence of rows in insertion order
  saltCtr,       \* number of values randomBytes has produced
  pc,            \* pc[p]: the statement process p executes next
  input,         \* input[p]: the request process p serves
  local,         \* local[p]: the handler's local variables
  response,      \* the response sent to a caller since the last request arrived
  pre,           \* history: the tables as they were when p's request arrived
  plain,         \* history: plain[id] = the secret last supplied for account id
  hashLog,       \* history: the hashing events, in order
  devices,       \* mikrotik_devices: set of rows
  nextDeviceId,  \* mikrotik_devices.id serial
  clock,         \* the time that now() and new Date() read
  lastQuery      \* history: the last first page (offset 0 of a request that
                 \* gave a limit) that getActivityLogs has returned since a
                 \* request for another operation arrived

vars == <<profiles, profileCols, nextProfileId, users, nextUserId, logs, saltCtr,
          pc, input, local, response, pre, plain, hashLog,
          devices, nextDeviceId, clock, lastQuery>>

\* the device table and the clock
devVars == <<devices, nextDeviceId, clock>>

\* ------------------------------------------------------------- the schema
\* defaultNow(): now() is the same for every column of one insert
defaultNow == clock

\* radius_user_status enum
radiusUserStatusEnum == {"active", "suspended", "expired"}

\* activity_action enum
activityActionEnum == {"login", "logout", "session_start", "session_end",
                       "account_created", "account_updated", "account_suspended"}

\* a column default that leaves new accounts suspended
DefaultUserStatus_Suspended == "suspended"

\* radius_users.status default
DefaultUserStatus == "active"

\* A row of radius_users.  The table has a primary key on id and no other
\* constraint: neither a unique index on username nor a foreign key on
\* profile_id.
UserRow(id, username, password, profile_id, full_name, status) ==
  [id |-> id, username |-> username, password |-> password,
   profile_id |-> profile_id, full_name |-> full_name, status |-> status]

\* an entry that does not name its account
LogRow_NoUser(id, user_id, username, action) ==
  [id |-> id, user_id |-> 0, username |-> username, action |-> action,
   created_at |-> defaultNow]

\* A row of activity_logs (user_id is a plain nullable integer column;
\* created_at is left to its default).
LogRow(id, user_id, username, action) ==
  [id |-> id, user_id |-> user_id, username |-> username, action |-> action,
   created_at |-> defaultNow]

\* The columns of a row of radius_profiles other than id.  download_speed is
\* declared and handled as upload_speed is, idle_timeout and monthly_quota as
\* session_timeout is.  price is the text of a numeric(10,2) column or null.
ProfileCols(name, upload_speed, session_timeout, price, created_at) ==
  [name |-> name, upload_speed |-> upload_speed,
   session_timeout |-> session_timeout, price |-> price,
   created_at |-> created_at]

NoProfileCols == [id \in {} |-> ProfileCols("", 0, NullNumber, NullNumber, 0)]

\* ------------------------------------------------------ credential hasher
\* String.prototype.split(':') on a token string
RECURSIVE split(_)
split(s) ==
  IF \A i \in 1..Len(s) : s[i] # ":"
  THEN <<s>>
  ELSE LET k == CHOOSE i \in 1..Len(s) :
                  s[i] = ":" /\ \A j \in 1..(i - 1) : s[j] # ":"
       IN <<SubSeq(s, 1, k - 1)>> \o split(SubSeq(s, k + 1, Len(s)))

\* randomBytes(32).toString('hex'): the n-th value drawn
randomBytes(n) == <<"salt", ToString(n)>>

\* pbkdf2Sync(password, salt, 10000, 64, 'sha512').toString('hex')
pbkdf2Sync(password, salt) ==
  <<"pbkdf2[">> \o password \o <<"|">> \o salt \o <<"]">>

\* createHash('md5').update(password).digest('hex')
md5Hex(password) == <<"md5[">> \o password \o <<"]">>

\* hashPassword of create_radius_user, given the salt it draws
hashPassword(password, salt) == salt \o <<":">> \o pbkdf2Sync(password, salt)

\* verifyPassword of create_radius_user: a stored string without ':' leaves
\* `hash` undefined, and undefined === verifyHash is false
verifyPassword(password, storedHash) ==
  LET parts == split(storedHash)
      salt == parts[1]
  IN Len(parts) >= 2 /\ parts[2] = pbkdf2Sync(password, salt)

\* an update that stores the secret as supplied
updatePasswordHash_Plain(password) == password

\* the password hashing of update_radius_user; updateData is prepared in the
\* synchronous code that precedes the update statement
updatePasswordHash(password) == md5Hex(password)

\* ------------------------------------------------------------ the queries
\* a profile lookup that finds a row for every id
selectProfile_AnyId(profile_id) == {profile_id}

\* select from radius_profiles where id = profile_id
selectProfile(profile_id) == {pid \in profiles : pid = profile_id}

\* a username lookup that never finds a row
selectUserByUsername_NoneFound(username) == {}

\* select from radius_users where username = username
selectUserByUsername(username) == {u \in users : u.username = username}

\* select from radius_users where id = id
selectUserById(id) == {u \in users : u.id = id}

\* a dependent-user lookup that never finds a row
selectUsersByProfile_NoneFound(profile_id) == {}

\* select from radius_users where profile_id = profile_id
selectUsersByProfile(profile_id) == {u \in users : u.profile_id = profile_id}

\* ----------------------------------------------------------- the messages
msgProfileDoesNotExist(profile_id) ==
  <<"Profile with ID", ToString(profile_id), "does not exist">>

\* a message that does not name the username
msgUsernameExists_NoName(username) == <<"Username already exists">>

msgUsernameExists(username) == <<"Username", username, "already exists">>

msgUserNotFound(id) == <<"Radius user with id", ToString(id), "not found">>

\* a message that names the wrong table
msgProfileNotFound_AsUser(id) == <<"Radius user with id", ToString(id), "not found">>

msgProfileNotFound(id) == <<"Radius profile with id", ToString(id), "not found">>

\* a message that reports one user too few
msgProfileInUse_OffByOne(n) ==
  <<"Cannot delete profile:", ToString(n - 1), "users are still using this profile">>

msgProfileInUse(n) ==
  <<"Cannot delete profile:", ToString(n), "users are still using this profile">>

\* drizzle rejects an update whose set-object has no defined entry
msgNoValues == <<"No values to set">>

\* ----------------------------------------------------- requests, results
\* the filter of getActivityLogs: a field is <<>> when absent, <<v>> otherwise
NoFilter ==
  [username |-> <<>>, action |-> <<>>, start_date |-> <<>>, end_date |-> <<>>,
   limit |-> <<>>, offset |-> <<>>]

NoQuery == [asked |-> FALSE, filter |-> NoFilter, rows |-> <<>>, logs |-> <<>>]

NoInput ==
  [op |-> "none", id |-> 0, username |-> "", password |-> <<>>,
   profile_id |-> 0, full_name |-> "", status |-> "", present |-> {},
   name |-> "", ip_address |-> "", device_id |-> 0,
   upload_speed |-> 0, session_timeout |-> <<>>, price |-> <<>>,
   filter |-> NoFilter]

NoData == [f \in {} |-> ""]

NoLocal == [hashedPassword |-> <<>>, rows |-> {}, updateData |-> NoData, check |-> ""]

NoResponse == [op |-> "none", status |-> "none", msg |-> <<>>, rows |-> {}]

NoSnapshot ==
  [profiles |-> {}, profileCols |-> NoProfileCols, users |-> {}, logs |-> <<>>,
   devices |-> {}, clock |-> 0]

Snapshot ==
  [profiles |-> profiles, profileCols |-> profileCols, users |-> users,
   logs |-> logs, devices |-> devices, clock |-> clock]

AllIdle == \A p \in Procs : pc[p] = "idle"

\* statements after which a handler may still insert into radius_users
BeforeUserInsert == {"cu_selectProfile", "cu_selectUser", "cu_insertUser"}

\* statements after which a handler may still insert into activity_logs
BeforeLogInsert == {"cu_selectProfile", "cu_selectUser", "cu_insertUser", "cu_insertLog",
                    "uu_selectUser", "uu_selectProfile", "uu_update", "uu_insertLog",
                    "du_selectUser", "du_insertLog"}

InFlight(S) == Cardinality({p \in Procs : pc[p] \in S})

Init ==
  /\ profiles = {}
  /\ profileCols = NoProfileCols
  /\ nextProfileId = 1
  /\ users = {}
  /\ nextUserId = 1
  /\ logs = <<>>
  /\ saltCtr = 0
  /\ pc = [p \in Procs |-> "idle"]
  /\ input = [p \in Procs |-> NoInput]
  /\ local = [p \in Procs |-> NoLocal]
  /\ response = NoResponse
  /\ pre = [p \in Procs |-> NoSnapshot]
  /\ plain = [id \in {} |-> <<>>]
  /\ hashLog = <<>>
  /\ devices = {}
  /\ nextDeviceId = 1
  /\ clock = 0
  /\ lastQuery = NoQuery

\* A request arrives at process p and the handler is entered.
Accept(p, A, first, in) ==
  /\ pc[p] = "idle"
  /\ p \in A.procs
  /\ A.exclusive => AllIdle
  /\ pc' = [pc EXCEPT ![p] = first]
  /\ input' = [input EXCEPT ![p] = in]
  /\ pre' = [pre EXCEPT ![p] = Snapshot]
  /\ response' = NoResponse
  /\ lastQuery' = IF in.op = "getActivityLogs" THEN lastQuery ELSE NoQuery
  /\ UNCHANGED <<profiles, profileCols, nextProfileId, users, nextUserId, logs, saltCtr,
                 local, plain, hashLog>>
  /\ UNCHANGED devVars

\* The handler of p is left and the response goes to the caller.
Respond(p, status, msg, rows) ==
  /\ pc' = [pc EXCEPT ![p] = "idle"]
  /\ response' = [op |-> input[p].op, status |-> status, msg |-> msg, rows |-> rows]
  /\ input' = [input EXCEPT ![p] = NoInput]
  /\ local' = [local EXCEPT ![p] = NoLocal]
  /\ pre' = [pre EXCEPT ![p] = NoSnapshot]

\* The handler of p throws: the catch block logs and rethrows.
Throw(p, msg) == Respond(p, "error", msg, {})

\* The handler of p returns.
Return(p, rows) == Respond(p, "ok", <<>>, rows)

\* The handler of p goes on to its next statement with the locals loc.
Goto(p, next, loc) ==
  /\ pc' = [pc EXCEPT ![p] = next]
  /\ local' = [local EXCEPT ![p] = loc]
  /\ UNCHANGED <<input, pre, response>>

\* ------------------------------------------------- prices and numeric text
\* Number.prototype.toString of a price: the integer part followed by the
\* fraction digits up to the last one that is not zero ("29.99", "29.9", "30")
numberToString(n) ==
  IF n % 100 = 0 THEN <<n \div 100>>
  ELSE IF n % 10 = 0 THEN <<n \div 100, (n % 100) \div 10>>
  ELSE <<n \div 100, (n % 100) \div 10, n % 10>>

\* the text a numeric(10,2) column keeps and returns for a value written as
\* text: always two fraction digits ("29.90", "30.00", "0.00")
numericColumn(text) ==
  IF text = NullNumber THEN NullNumber
  ELSE <<text[1], IF Len(text) >= 2 THEN text[2] ELSE 0,
                  IF Len(text) >= 3 THEN text[3] ELSE 0>>

\* parseFloat of the text of a numeric column
parseFloat(text) ==
  text[1] * 100 + (IF Len(text) >= 2 THEN text[2] * 10 ELSE 0)
                + (IF Len(text) >= 3 THEN text[3] ELSE 0)

\* `v ? .. : ..` on a nullable number: null and 0 are falsy
truthyNumber(v) == v # NullNumber /\ v # <<0>>

\* `s ? .. : ..` on a nullable string: null and "" are falsy
truthyString(s) == s # NullNumber /\ Len(s) > 0

\* price: input.price ? input.price.toString() : null
createPriceValue(price) ==
  IF truthyNumber(price) THEN numberToString(price[1]) ELSE NullNumber

\* price: profile.price ? parseFloat(profile.price) : null
returnedPrice(text) ==
  IF truthyString(text) THEN <<parseFloat(text)>> ELSE NullNumber

\* the profile a handler returns for row id: { ...profile, price: .. }
returnedProfile(id, cols) ==
  [id |-> id, name |-> cols.name, upload_speed |-> cols.upload_speed,
   session_timeout |-> cols.session_timeout,
   price |-> returnedPrice(cols.price), created_at |-> cols.created_at]

\* ------------------------------------------------------ createRadiusProfile
CreateProfileCall(p, A) ==
  /\ nextProfileId + InFlight({"cp_insert"}) <= MaxProfiles
  /\ \E name \in A.profileNames, upload_speed \in A.speeds,
        session_timeout \in A.timeouts, price \in A.prices :
       Accept(p, A, "cp_insert",
              [NoInput EXCEPT !.op = "createRadiusProfile", !.name = name,
                              !.upload_speed = upload_speed,
                              !.session_timeout = session_timeout,
                              !.price = price])

cp_insert(p) ==
  /\ pc[p] = "cp_insert"
  /\ LET in == input[p]
         cols == ProfileCols(in.name, in.upload_speed, in.session_timeout,
                             numericColumn(createPriceValue(in.price)),
                             defaultNow)
     IN /\ profiles' = profiles \cup {nextProfileId}
        /\ profileCols' = [id \in profiles \cup {nextProfileId} |->
                             IF id = nextProfileId THEN cols ELSE profileCols[id]]
        /\ nextProfileId' = nextProfileId + 1
        /\ Return(p, {returnedProfile(nextProfileId, cols)})
  /\ UNCHANGED <<users, nextUserId, logs, saltCtr, plain, hashLog>>
  /\ UNCHANGED <<devVars, lastQuery>>

\* ------------------------------------------------------ deleteRadiusProfile
DeleteProfileCall(p, A) ==
  /\ pc[p] = "idle"
  /\ \E id \in A.profileIds :
       Accept(p, A, "dp_selectProfile",
              [NoInput EXCEPT !.op = "deleteRadiusProfile", !.id = id])

dp_selectProfile(p) ==
  /\ pc[p] = "dp_selectProfile"
  /\ LET existingProfile == selectProfile(input[p].id)
     IN IF existingProfile = {}
        THEN Throw(p, msgProfileNotFound(input[p].id))
        ELSE Goto(p, "dp_selectUsers", local[p])
  /\ UNCHANGED <<profiles, profileCols, nextProfileId, users, nextUserId, logs, saltCtr,
                 plain, hashLog>>
  /\ UNCHANGED <<devVars, lastQuery>>

\* a dependents check that removes the profile before it reports
dp_selectUsers_DeletesAnyway(p) ==
  /\ pc[p] = "dp_selectUsers"
  /\ LET dependentUsers == selectUsersByProfile(input[p].id)
     IN IF Cardinality(dependentUsers) > 0
        THEN Throw(p, msgProfileInUse(Cardinality(dependentUsers)))
        ELSE Goto(p, "dp_delete", local[p])
  /\ profiles' = profiles \ {input[p].id}
  /\ profileCols' = [id \in profiles \ {input[p].id} |-> profileCols[id]]
  /\ UNCHANGED <<nextProfileId, users, nextUserId, logs, saltCtr, plain, hashLog>>
  /\ UNCHANGED <<devVars, lastQuery>>

dp_selectUsers(p) ==
  /\ pc[p] = "dp_selectUsers"
  /\ LET dependentUsers == selectUsersByProfile(input[p].id)
     IN IF Cardinality(dependentUsers) > 0
        THEN Throw(p, msgProfileInUse(Cardinality(dependentUsers)))
        ELSE Goto(p, "dp_delete", local[p])
  /\ UNCHANGED <<profiles, profileCols, nextProfileId, users, nextUserId, logs, saltCtr,
                 plain, hashLog>>
  /\ UNCHANGED <<devVars, lastQuery>>

dp_delete(p) ==
  /\ pc[p] = "dp_delete"
  /\ profiles' = profiles \ {input[p].id}
  /\ profileCols' = [id \in profiles \ {input[p].id} |-> profileCols[id]]
  /\ Return(p, {})
  /\ UNCHANGED <<nextProfileId, users, nextUserId, logs, saltCtr, plain, hashLog>>
  /\ UNCHANGED <<devVars, lastQuery>>

\* ------------------------------------------------------ updateRadiusProfile
UpdateProfileCall(p, A) ==
  /\ pc[p] = "idle"
  /\ \E id \in A.profileIds, present \in A.profilePresent,
        name \in A.newProfileNames, upload_speed \in A.newSpeeds,
        session_timeout \in A.newTimeouts, price \in A.newPrices :
       Accept(p, A, "up_selectProfile",
              [NoInput EXCEPT
                 !.op = "updateRadiusProfile", !.id = id, !.present = present,
                 !.name = IF "name" \in present THEN name ELSE @,
                 !.upload_speed =
                    IF "upload_speed" \in present THEN upload_speed ELSE @,
                 !.session_timeout =
                    IF "session_timeout" \in present THEN session_timeout ELSE @,
                 !.price = IF "price" \in present THEN price ELSE @])

\* a price conversion that tests the price as createRadiusProfile does
updatePriceValue_ZeroIsNull(price) ==
  IF truthyNumber(price) THEN numberToString(price[1]) ELSE NullNumber

\* updateData.price = input.price !== null ? input.price.toString() : null
updatePriceValue(price) ==
  IF price # NullNumber THEN numberToString(price[1]) ELSE NullNumber

\* updateData: a field is set when it is not undefined, so a null is set
profileUpdateData(in) ==
  [f \in in.present |->
     IF f = "price" THEN updatePriceValue(in.price) ELSE in[f]]

\* the columns cols after `set(data)`
setProfileColumns(cols, data) ==
  [c \in DOMAIN cols |->
     IF c \in DOMAIN data
     THEN IF c = "price" THEN numericColumn(data[c]) ELSE data[c]
     ELSE cols[c]]

up_selectProfile(p) ==
  /\ pc[p] = "up_selectProfile"
  /\ LET existingProfile == selectProfile(input[p].id)
     IN IF existingProfile = {}
        THEN Throw(p, msgProfileNotFound(input[p].id))
        ELSE Goto(p, "up_update",
                  [local[p] EXCEPT !.updateData = profileUpdateData(input[p])])
  /\ UNCHANGED <<profiles, profileCols, nextProfileId, users, nextUserId, logs, saltCtr,
                 plain, hashLog>>
  /\ UNCHANGED <<devVars, lastQuery>>

up_update(p) ==
  /\ pc[p] = "up_update"
  /\ LET id == input[p].id
         data == local[p].updateData
     IN IF DOMAIN data = {}
        THEN /\ Throw(p, msgNoValues)
             /\ UNCHANGED profileCols
        ELSE IF id \notin profiles
        \* result[0] is undefined: reading profile.price raises a TypeError
        THEN /\ Throw(p, <<"TypeError">>)
             /\ UNCHANGED profileCols
        ELSE LET cols == setProfileColumns(profileCols[id], data)
             IN /\ profileCols' = [profileCols EXCEPT ![id] = cols]
                /\ Return(p, {returnedProfile(id, cols)})
  /\ UNCHANGED <<profiles, nextProfileId, users, nextUserId, logs, saltCtr,
                 plain, hashLog>>
  /\ UNCHANGED <<devVars, lastQuery>>

\* -------------------------------------------------------- getRadiusProfiles
ListProfilesCall(p, A) ==
  /\ pc[p] = "idle"
  /\ Accept(p, A, "lp_select", [NoInput EXCEPT !.op = "getRadiusProfiles"])

lp_select(p) ==
  /\ pc[p] = "lp_select"
  /\ Return(p, {returnedProfile(id, profileCols[id]) : id \in profiles})
  /\ UNCHANGED <<profiles, profileCols, nextProfileId, users, nextUserId, logs, saltCtr,
                 plain, hashLog>>
  /\ UNCHANGED <<devVars, lastQuery>>

\* ---------------------------------------------------------- getActivityLogs
QueryLogCall(p, A) ==
  /\ pc[p] = "idle"
  /\ \E filter \in A.filters :
       Accept(p, A, "ga_select",
              [NoInput EXCEPT !.op = "getActivityLogs", !.filter = filter])

\* const filter = { limit: 100, offset: 0, ...input }
filterDefaults(in) ==
  [in EXCEPT !.limit = IF @ = <<>> THEN <<100>> ELSE @,
             !.offset = IF @ = <<>> THEN <<0>> ELSE @]

\* `if (filter.username)`, `if (filter.action)`: undefined and '' are falsy
truthyText(v) == v # <<>> /\ v[1] # ""

\* `if (filter.start_date)`, `if (filter.end_date)`: a Date object is truthy
truthyDate(v) == v # <<>>

\* conditions: the columns for which a condition is pushed
conditions(filter) ==
  {c \in {"username", "action"} : truthyText(filter[c])}
    \cup {c \in {"start_date", "end_date"} : truthyDate(filter[c])}

\* where(and(...conditions))
matches(log, filter) ==
  /\ "username" \in conditions(filter) => log.username = filter.username[1]
  /\ "action" \in conditions(filter) => log.action = filter.action[1]
  /\ "start_date" \in conditions(filter) => log.created_at >= filter.start_date[1]
  /\ "end_date" \in conditions(filter) => log.created_at <= filter.end_date[1]

\* orderBy(desc(created_at)): the orders in which the store may return the
\* rows; rows of equal created_at come in any order
orderings(rows) ==
  {s \in [1..Cardinality(rows) -> rows] :
     /\ \A i, j \in DOMAIN s : i < j => s[i] # s[j]
     /\ \A i, j \in DOMAIN s : i < j => s[i].created_at >= s[j].created_at}

\* limit(limit).offset(offset)
limitOffset(s, limit, offset) ==
  [i \in 1..(IF Len(s) - offset < limit
             THEN (IF Len(s) < offset THEN 0 ELSE Len(s) - offset)
             ELSE limit) |-> s[offset + i]]

ga_select(p) ==
  /\ pc[p] = "ga_select"
  /\ LET filter == filterDefaults(input[p].filter)
         matching == {logs[i] : i \in {k \in 1..Len(logs) : matches(logs[k], filter)}}
     IN \E results \in orderings(matching) :
          LET page == limitOffset(results, filter.limit[1], filter.offset[1])
          IN /\ Return(p, page)
             /\ lastQuery' = IF filter.offset = <<0>> /\ input[p].filter.limit # <<>>
                             THEN [asked |-> TRUE, filter |-> filter,
                                   rows |-> page, logs |-> logs]
                             ELSE lastQuery
  /\ UNCHANGED <<profiles, profileCols, nextProfileId, users, nextUserId, logs, saltCtr,
                 plain, hashLog>>
  /\ UNCHANGED devVars

\* --------------------------------------------------------- createRadiusUser
CreateAccountCall(p, A) ==
  /\ nextUserId + InFlight(BeforeUserInsert) <= MaxUsers
  /\ Len(logs) + InFlight(BeforeLogInsert) < MaxLogs
  /\ \E username \in A.usernames, password \in A.passwords,
        profile_id \in A.profileIds, full_name \in A.fullNames :
       Accept(p, A, "cu_selectProfile",
              [NoInput EXCEPT !.op = "createRadiusUser", !.username = username,
                              !.password = password, !.profile_id = profile_id,
                              !.full_name = full_name])

cu_selectProfile(p) ==
  /\ pc[p] = "cu_selectProfile"
  /\ LET profile == selectProfile(input[p].profile_id)
     IN IF profile = {}
        THEN Throw(p, msgProfileDoesNotExist(input[p].profile_id))
        ELSE Goto(p, "cu_selectUser", local[p])
  /\ UNCHANGED <<profiles, profileCols, nextProfileId, users, nextUserId, logs, saltCtr,
                 plain, hashLog>>
  /\ UNCHANGED <<devVars, lastQuery>>

cu_selectUser(p) ==
  /\ pc[p] = "cu_selectUser"
  /\ LET existingUser == selectUserByUsername(input[p].username)
     IN IF existingUser # {}
        THEN /\ Throw(p, msgUsernameExists(input[p].username))
             /\ UNCHANGED <<saltCtr, hashLog>>
        ELSE LET hashedPassword == hashPassword(input[p].password, randomBytes(saltCtr + 1))
             IN /\ saltCtr' = saltCtr + 1
                /\ hashLog' = Append(hashLog, [secret |-> input[p].password,
                                               hash |-> hashedPassword])
                /\ Goto(p, "cu_insertUser", [local[p] EXCEPT !.hashedPassword = hashedPassword])
  /\ UNCHANGED <<profiles, profileCols, nextProfileId, users, nextUserId, logs, plain>>
  /\ UNCHANGED <<devVars, lastQuery>>

cu_insertUser(p) ==
  /\ pc[p] = "cu_insertUser"
  /\ LET newUser == UserRow(nextUserId, input[p].username, local[p].hashedPassword,
                            input[p].profile_id, input[p].full_name, DefaultUserStatus)
     IN /\ users' = users \cup {newUser}
        /\ nextUserId' = nextUserId + 1
        /\ plain' = [id \in DOMAIN plain \cup {newUser.id} |->
                       IF id = newUser.id THEN input[p].password ELSE plain[id]]
        /\ Goto(p, "cu_insertLog", [local[p] EXCEPT !.rows = {newUser}])
  /\ UNCHANGED <<profiles, profileCols, nextProfileId, logs, saltCtr, hashLog>>
  /\ UNCHANGED <<devVars, lastQuery>>

cu_insertLog(p) ==
  /\ pc[p] = "cu_insertLog"
  /\ LET newUser == CHOOSE u \in local[p].rows : TRUE
     IN logs' = Append(logs, LogRow(Len(logs) + 1, newUser.id, newUser.username,
                                    "account_created"))
  /\ Return(p, local[p].rows)
  /\ UNCHANGED <<profiles, profileCols, nextProfileId, users, nextUserId, saltCtr, plain, hashLog>>
  /\ UNCHANGED <<devVars, lastQuery>>

\* --------------------------------------------------------- updateRadiusUser
UpdateAccountCall(p, A) ==
  /\ Len(logs) + InFlight(BeforeLogInsert) < MaxLogs
  /\ \E id \in A.userIds, present \in A.present :
     \E password \in (IF "password" \in present THEN A.passwords ELSE {<<>>}),
        profile_id \in (IF "profile_id" \in present THEN A.profileIds ELSE {0}),
        full_name \in (IF "full_name" \in present THEN A.newFullNames ELSE {""}),
        status \in (IF "status" \in present THEN StatusArgs ELSE {""}) :
       Accept(p, A, "uu_selectUser",
              [NoInput EXCEPT !.op = "updateRadiusUser", !.id = id,
                              !.present = present, !.password = password,
                              !.profile_id = profile_id, !.full_name = full_name,
                              !.status = status])

uu_selectUser(p) ==
  /\ pc[p] = "uu_selectUser"
  /\ LET existingUser == selectUserById(input[p].id)
     IN IF existingUser = {}
        THEN Throw(p, msgUserNotFound(input[p].id))
        ELSE IF "profile_id" \in input[p].present
             THEN Goto(p, "uu_selectProfile", local[p])
             ELSE Goto(p, "uu_update", local[p])
  /\ UNCHANGED <<profiles, profileCols, nextProfileId, users, nextUserId, logs, saltCtr,
                 plain, hashLog>>
  /\ UNCHANGED <<devVars, lastQuery>>

uu_selectProfile(p) ==
  /\ pc[p] = "uu_selectProfile"
  /\ LET profileExists == selectProfile(input[p].profile_id)
     IN IF profileExists = {}
        THEN Throw(p, msgProfileNotFound(input[p].profile_id))
        ELSE Goto(p, "uu_update", local[p])
  /\ UNCHANGED <<profiles, profileCols, nextProfileId, users, nextUserId, logs, saltCtr,
                 plain, hashLog>>
  /\ UNCHANGED <<devVars, lastQuery>>

\* an updateData that takes a null like an absent field
updateData_NullIsAbsent(in) ==
  [f \in {g \in in.present : g # "full_name" \/ in.full_name # NULL} |->
     IF f = "password" THEN updatePasswordHash(in.password) ELSE in[f]]

\* updateData: the columns the request sets and their values; a field is set
\* when it is not undefined, so a null is set
updateData(in) ==
  [f \in in.present |->
     IF f = "password" THEN updatePasswordHash(in.password) ELSE in[f]]

\* the row u after `set(data)`
setColumns(u, data) ==
  [f \in DOMAIN u |-> IF f \in DOMAIN data THEN data[f] ELSE u[f]]

\* an update statement after which the handler carries on when no row was
\* updated
uu_update_LogsAnyway(p) ==
  /\ pc[p] = "uu_update"
  /\ LET data == updateData(input[p])
         matched == selectUserById(input[p].id)
         updated == {setColumns(u, data) : u \in matched}
         absent == UserRow(input[p].id, "", <<>>, 0, "", "")
     IN /\ users' = (users \ matched) \cup updated
        /\ Goto(p, "uu_insertLog",
                [local[p] EXCEPT !.rows = IF updated = {} THEN {absent} ELSE updated])
  /\ UNCHANGED <<profiles, profileCols, nextProfileId, nextUserId, logs, saltCtr,
                 plain, hashLog>>
  /\ UNCHANGED <<devVars, lastQuery>>

uu_update(p) ==
  /\ pc[p] = "uu_update"
  /\ LET data == updateData(input[p])
         hashes == IF "password" \in input[p].present
                   THEN <<[secret |-> input[p].password, hash |-> data["password"]]>>
                   ELSE <<>>
     IN IF DOMAIN data = {}
        THEN /\ Throw(p, msgNoValues)
             /\ hashLog' = hashLog \o hashes
             /\ UNCHANGED <<users, plain>>
        ELSE LET matched == selectUserById(input[p].id)
                 updated == {setColumns(u, data) : u \in matched}
             IN /\ users' = (users \ matched) \cup updated
                /\ hashLog' = hashLog \o hashes
                /\ plain' = IF "password" \in input[p].present /\ matched # {}
                            THEN [plain EXCEPT ![input[p].id] = input[p].password]
                            ELSE plain
                /\ IF updated = {}
                   \* result[0] is undefined: reading updatedUser.id raises a TypeError
                   THEN Throw(p, <<"TypeError">>)
                   ELSE Goto(p, "uu_insertLog", [local[p] EXCEPT !.rows = updated])
  /\ UNCHANGED <<profiles, profileCols, nextProfileId, nextUserId, logs, saltCtr>>
  /\ UNCHANGED <<devVars, lastQuery>>

\* a log insert that records a suspension under its own action
uu_insertLog_Suspended(p) ==
  /\ pc[p] = "uu_insertLog"
  /\ LET updatedUser == CHOOSE u \in local[p].rows : TRUE
     IN logs' = Append(logs, LogRow(Len(logs) + 1, updatedUser.id, updatedUser.username,
                                    IF updatedUser.status = "suspended"
                                    THEN "account_suspended" ELSE "account_updated"))
  /\ Return(p, local[p].rows)
  /\ UNCHANGED <<profiles, profileCols, nextProfileId, users, nextUserId, saltCtr, plain, hashLog>>
  /\ UNCHANGED <<devVars, lastQuery>>

uu_insertLog(p) ==
  /\ pc[p] = "uu_insertLog"
  /\ LET updatedUser == CHOOSE u \in local[p].rows : TRUE
     IN logs' = Append(logs, LogRow(Len(logs) + 1, updatedUser.id, updatedUser.username,
                                    "account_updated"))
  /\ Return(p, local[p].rows)
  /\ UNCHANGED <<profiles, profileCols, nextProfileId, users, nextUserId, saltCtr, plain, hashLog>>
  /\ UNCHANGED <<devVars, lastQuery>>

\* --------------------------------------------------------- deleteRadiusUser
DeleteAccountCall(p, A) ==
  /\ Len(logs) + InFlight(BeforeLogInsert) < MaxLogs
  /\ \E id \in A.userIds :
       Accept(p, A, "du_selectUser",
              [NoInput EXCEPT !.op = "deleteRadiusUser", !.id = id])

du_selectUser(p) ==
  /\ pc[p] = "du_selectUser"
  /\ LET existingUsers == selectUserById(input[p].id)
     IN IF existingUsers = {}
        THEN Throw(p, msgUserNotFound(input[p].id))
        ELSE Goto(p, "du_insertLog", [local[p] EXCEPT !.rows = existingUsers])
  /\ UNCHANGED <<profiles, profileCols, nextProfileId, users, nextUserId, logs, saltCtr,
                 plain, hashLog>>
  /\ UNCHANGED <<devVars, lastQuery>>

du_insertLog(p) ==
  /\ pc[p] = "du_insertLog"
  /\ LET userToDelete == CHOOSE u \in local[p].rows : TRUE
     IN logs' = Append(logs, LogRow(Len(logs) + 1, input[p].id, userToDelete.username,
                                    "account_updated"))
  /\ Goto(p, "du_delete", local[p])
  /\ UNCHANGED <<profiles, profileCols, nextProfileId, users, nextUserId, saltCtr, plain, hashLog>>
  /\ UNCHANGED <<devVars, lastQuery>>

\* a delete that takes the entries of the account with it
du_delete_Cascade(p) ==
  /\ pc[p] = "du_delete"
  /\ users' = users \ selectUserById(input[p].id)
  /\ logs' = SelectSeq(logs, LAMBDA e : e.user_id # input[p].id)
  /\ Return(p, {})
  /\ UNCHANGED <<profiles, profileCols, nextProfileId, nextUserId, saltCtr, plain, hashLog>>
  /\ UNCHANGED <<devVars, lastQuery>>

du_delete(p) ==
  /\ pc[p] = "du_delete"
  /\ users' = users \ selectUserById(input[p].id)
  /\ Return(p, {})
  /\ UNCHANGED <<profiles, profileCols, nextProfileId, nextUserId, logs, saltCtr, plain, hashLog>>
  /\ UNCHANGED <<devVars, lastQuery>>

\* ----------------------------------------------------------- getRadiusUsers
ListAccountsCall(p, A) ==
  /\ pc[p] = "idle"
  /\ Accept(p, A, "lu_select", [NoInput EXCEPT !.op = "getRadiusUsers"])

lu_select(p) ==
  /\ pc[p] = "lu_select"
  /\ Return(p, users)
  /\ UNCHANGED <<profiles, profileCols, nextProfileId, users, nextUserId, logs, saltCtr,
                 plain, hashLog>>
  /\ UNCHANGED <<devVars, lastQuery>>

\* --------------------------------------------------------- mikrotik_devices
\* device_status enum
deviceStatusEnum == {"online", "offline", "error"}

\* A row of mikrotik_devices.  The columns username, password and port are
\* written and kept by the same statements as name and ip_address and are
\* left out.
DeviceRow(id, name, ip_address, status, created_at, updated_at) ==
  [id |-> id, name |-> name, ip_address |-> ip_address, status |-> status,
   created_at |-> created_at, updated_at |-> updated_at]

\* select from mikrotik_devices where id = id
selectDeviceById(id) == {d \in devices : d.id = id}

msgDeviceNotFound(id) == <<"Mikrotik device with id", ToString(id), "not found">>

msgDeviceIdNotFound(id) == <<"Device with ID", ToString(id), "not found">>

\* ------------------------------------------------------ createMikrotikDevice
CreateDeviceCall(p, A) ==
  /\ nextDeviceId + InFlight({"cd_insert"}) <= MaxDevices
  /\ \E name \in A.names, ip_address \in A.ipAddresses :
       Accept(p, A, "cd_insert",
              [NoInput EXCEPT !.op = "createMikrotikDevice", !.name = name,
                              !.ip_address = ip_address])

\* a device that is registered as online
newDevice_Online(id, in) ==
  DeviceRow(id, in.name, in.ip_address, "online", defaultNow, defaultNow)

\* the row that insert(...).values({..., status: 'offline'}) creates
newDevice(id, in) ==
  DeviceRow(id, in.name, in.ip_address, "offline", defaultNow, defaultNow)

\* a registration that writes an entry to activity_logs
cd_insert_Logged(p) ==
  /\ pc[p] = "cd_insert"
  /\ LET device == newDevice(nextDeviceId, input[p])
     IN /\ devices' = devices \cup {device}
        /\ nextDeviceId' = nextDeviceId + 1
        /\ logs' = Append(logs, LogRow(Len(logs) + 1, 0, device.name, "session_start"))
        /\ Return(p, {device})
  /\ UNCHANGED <<lastQuery, profiles, profileCols, nextProfileId, users, nextUserId, saltCtr,
                 plain, hashLog, clock>>

cd_insert(p) ==
  /\ pc[p] = "cd_insert"
  /\ LET device == newDevice(nextDeviceId, input[p])
     IN /\ devices' = devices \cup {device}
        /\ nextDeviceId' = nextDeviceId + 1
        /\ Return(p, {device})
  /\ UNCHANGED <<lastQuery, profiles, profileCols, nextProfileId, users, nextUserId, logs, saltCtr,
                 plain, hashLog, clock>>

\* ------------------------------------------------------ updateMikrotikDevice
DeviceUpdateFields == {"name", "ip_address"}

UpdateDeviceCall(p, A) ==
  /\ pc[p] = "idle"
  /\ \E id \in A.deviceIds, present \in SUBSET DeviceUpdateFields :
     \E name \in (IF "name" \in present THEN A.newNames ELSE {""}),
        ip_address \in (IF "ip_address" \in present THEN A.newIpAddresses ELSE {""}) :
       Accept(p, A, "ud_selectDevice",
              [NoInput EXCEPT !.op = "updateMikrotikDevice", !.id = id,
                              !.present = present, !.name = name,
                              !.ip_address = ip_address])

\* an update object without the timestamp
deviceUpdateData_NoTimestamp(in, now) == [f \in in.present |-> in[f]]

\* updateData of updateMikrotikDevice: updated_at and the fields that are
\* not undefined
deviceUpdateData(in, now) ==
  [f \in in.present \cup {"updated_at"} |-> IF f = "updated_at" THEN now ELSE in[f]]

ud_selectDevice(p) ==
  /\ pc[p] = "ud_selectDevice"
  /\ LET existingDevice == selectDeviceById(input[p].id)
     IN IF existingDevice = {}
        THEN Throw(p, msgDeviceNotFound(input[p].id))
        ELSE Goto(p, "ud_update",
                  [local[p] EXCEPT !.updateData = deviceUpdateData(input[p], clock)])
  /\ UNCHANGED <<profiles, profileCols, nextProfileId, users, nextUserId, logs, saltCtr,
                 plain, hashLog>>
  /\ UNCHANGED <<devVars, lastQuery>>

ud_update(p) ==
  /\ pc[p] = "ud_update"
  /\ LET matched == selectDeviceById(input[p].id)
         result == {setColumns(d, local[p].updateData) : d \in matched}
     IN /\ devices' = (devices \ matched) \cup result
        /\ Return(p, result)
  /\ UNCHANGED <<lastQuery, profiles, profileCols, nextProfileId, users, nextUserId, logs, saltCtr,
                 plain, hashLog, nextDeviceId, clock>>

\* ------------------------------------------------------- refreshDeviceStatus
RefreshStatusCall(p, A) ==
  /\ pc[p] = "idle"
  /\ \E id \in A.deviceIds :
       Accept(p, A, "rd_selectDevice",
              [NoInput EXCEPT !.op = "refreshDeviceStatus", !.device_id = id])

\* simulateConnectionCheck: resolves to true or false, or rejects
simulateConnectionCheck(ipAddress) ==
  IF ipAddress = "192.168.1.999" THEN "false"
  ELSE IF ipAddress = "192.168.1.500" THEN "rejected"
  ELSE "true"

\* a status that takes a failed connection check for an unreachable device
newStatus_ErrorIsOffline(check) == IF check = "true" THEN "online" ELSE "offline"

\* newStatus: isReachable ? 'online' : 'offline', and 'error' in the catch
newStatus(check) ==
  IF check = "rejected" THEN "error"
  ELSE IF check = "true" THEN "online" ELSE "offline"

rd_selectDevice(p) ==
  /\ pc[p] = "rd_selectDevice"
  /\ LET existingDevice == selectDeviceById(input[p].device_id)
     IN IF existingDevice = {}
        THEN Throw(p, msgDeviceIdNotFound(input[p].device_id))
        ELSE Goto(p, "rd_check", [local[p] EXCEPT !.rows = existingDevice])
  /\ UNCHANGED <<profiles, profileCols, nextProfileId, users, nextUserId, logs, saltCtr,
                 plain, hashLog>>
  /\ UNCHANGED <<devVars, lastQuery>>

\* the connection check settles; the set-object of the update is built
rd_check(p) ==
  /\ pc[p] = "rd_check"
  /\ LET device == CHOOSE d \in local[p].rows : TRUE
         check == simulateConnectionCheck(device.ip_address)
     IN Goto(p, "rd_update",
             [local[p] EXCEPT !.check = check,
                              !.updateData = [status |-> newStatus(check),
                                              updated_at |-> clock]])
  /\ UNCHANGED <<profiles, profileCols, nextProfileId, users, nextUserId, logs, saltCtr,
                 plain, hashLog>>
  /\ UNCHANGED <<devVars, lastQuery>>

\* a refresh that writes back the row it has read, with the new status
rd_update_WholeRow(p) ==
  /\ pc[p] = "rd_update"
  /\ LET matched == selectDeviceById(input[p].device_id)
         result == IF matched = {}
                   THEN {}
                   ELSE {setColumns(d, local[p].updateData) : d \in local[p].rows}
     IN /\ devices' = (devices \ matched) \cup result
        /\ Return(p, result)
  /\ UNCHANGED <<lastQuery, profiles, profileCols, nextProfileId, users, nextUserId, logs, saltCtr,
                 plain, hashLog, nextDeviceId, clock>>

rd_update(p) ==
  /\ pc[p] = "rd_update"
  /\ LET matched == selectDeviceById(input[p].device_id)
         result == {setColumns(d, local[p].updateData) : d \in matched}
     IN /\ devices' = (devices \ matched) \cup result
        /\ Return(p, result)
  /\ UNCHANGED <<lastQuery, profiles, profileCols, nextProfileId, users, nextUserId, logs, saltCtr,
                 plain, hashLog, nextDeviceId, clock>>

\* --------------------------------------------------------- getMikrotikDevices
ListDevicesCall(p, A) ==
  /\ pc[p] = "idle"
  /\ Accept(p, A, "ld_select", [NoInput EXCEPT !.op = "getMikrotikDevices"])

ld_select(p) ==
  /\ pc[p] = "ld_select"
  /\ Return(p, devices)
  /\ UNCHANGED <<profiles, profileCols, nextProfileId, users, nextUserId, logs, saltCtr,
                 plain, hashLog>>
  /\ UNCHANGED <<devVars, lastQuery>>

\* ------------------------------------------- failure of an insert statement
\* the error the driver raises when a statement fails
msgInsertFailed == <<"Failed query: insert into activity_logs">>

\* a failed log insert that takes the new account back
cu_insertLogFails_Rollback(p) ==
  /\ pc[p] = "cu_insertLog"
  /\ users' = users \ local[p].rows
  /\ Throw(p, msgInsertFailed)
  /\ UNCHANGED <<profiles, profileCols, nextProfileId, nextUserId, logs, saltCtr, plain, hashLog>>
  /\ UNCHANGED <<devVars, lastQuery>>

\* the insert into activity_logs of createRadiusUser fails: the catch block
\* logs the error and rethrows it
cu_insertLogFails(p) ==
  /\ pc[p] = "cu_insertLog"
  /\ Throw(p, msgInsertFailed)
  /\ UNCHANGED <<profiles, profileCols, nextProfileId, users, nextUserId, logs, saltCtr,
                 plain, hashLog>>
  /\ UNCHANGED <<devVars, lastQuery>>

\* ------------------------------------------------------------------ the clock
Tick ==
  /\ clock < MaxClock
  /\ clock' = clock + 1
  /\ UNCHANGED <<lastQuery, profiles, profileCols, nextProfileId, users, nextUserId, logs, saltCtr,
                 pc, input, local, response, pre, plain, hashLog,
                 devices, nextDeviceId>>

\* ------------------------------------------------------- the specifications
Call(p, A) ==
  \/ CreateProfileCall(p, A)
  \/ DeleteProfileCall(p, A)
  \/ CreateAccountCall(p, A)
  \/ UpdateAccountCall(p, A)
  \/ DeleteAccountCall(p, A)
  \/ ListAccountsCall(p, A)

Step(p) ==
  \/ cp_insert(p)
  \/ dp_selectProfile(p)
  \/ dp_selectUsers(p)
  \/ dp_delete(p)
  \/ cu_selectProfile(p)
  \/ cu_selectUser(p)
  \/ cu_insertUser(p)
  \/ cu_insertLog(p)
  \/ uu_selectUser(p)
  \/ uu_selectProfile(p)
  \/ uu_update(p)
  \/ uu_insertLog(p)
  \/ du_selectUser(p)
  \/ du_insertLog(p)
  \/ du_delete(p)
  \/ lu_select(p)

\* one request at a time
Next == \E p \in Procs : Call(p, Args) \/ Step(p)

Spec == Init /\ [][Next]_vars

\* requests served concurrently
NextConc == \E p \in Procs : Call(p, ConcArgs) \/ Step(p)

SpecConc == Init /\ [][NextConc]_vars

DevCall(p, A) ==
  \/ CreateDeviceCall(p, A)
  \/ UpdateDeviceCall(p, A)
  \/ RefreshStatusCall(p, A)
  \/ ListDevicesCall(p, A)

DevStep(p) ==
  \/ cd_insert(p)
  \/ ud_selectDevice(p)
  \/ ud_update(p)
  \/ rd_selectDevice(p)
  \/ rd_check(p)
  \/ rd_update(p)
  \/ ld_select(p)

\* the device requests, one at a time, while time passes
NextDev == Tick \/ \E p \in Procs : DevCall(p, DevArgs) \/ DevStep(p)

SpecDev == Init /\ [][NextDev]_vars

ProfCall(p, A) ==
  \/ UpdateProfileCall(p, A)
  \/ ListProfilesCall(p, A)

ProfStep(p) ==
  \/ up_selectProfile(p)
  \/ up_update(p)
  \/ lp_select(p)

\* creation, update and listing of profiles, one request at a time, while
\* time passes
NextProf ==
  \/ Tick
  \/ \E p \in Procs :
       \/ CreateProfileCall(p, ProfArgs) \/ cp_insert(p)
       \/ ProfCall(p, ProfArgs) \/ ProfStep(p)

SpecProf == Init /\ [][NextProf]_vars

LogCall(p, A) == QueryLogCall(p, A)

LogStep(p) == ga_select(p)

\* accounts are created and updated and the log is queried, one request at a
\* time, while time passes
NextLog ==
  \/ Tick
  \/ \E p \in Procs :
       \/ CreateProfileCall(p, LogArgs) \/ cp_insert(p)
       \/ CreateAccountCall(p, LogArgs)
       \/ cu_selectProfile(p) \/ cu_selectUser(p) \/ cu_insertUser(p)
       \/ cu_insertLog(p)
       \/ UpdateAccountCall(p, LogArgs)
       \/ uu_selectUser(p) \/ uu_selectProfile(p) \/ uu_update(p)
       \/ uu_insertLog(p)
       \/ LogCall(p, LogArgs) \/ LogStep(p)

SpecLog == Init /\ [][NextLog]_vars

\* the device requests, served concurrently
NextDevConc == \E p \in Procs : DevCall(p, DevConcArgs) \/ DevStep(p)

SpecDevConc == Init /\ [][NextDevConc]_vars

\* every operation, one request at a time, where the insert into
\* activity_logs of createRadiusUser may fail
NextAll ==
  \E p \in Procs :
    \/ Call(p, AllArgs) \/ Step(p)
    \/ ProfCall(p, AllArgs) \/ ProfStep(p)
    \/ DevCall(p, AllArgs) \/ DevStep(p)
    \/ cu_insertLogFails(p)

SpecAll == Init /\ [][NextAll]_vars

\* ------------------------------------------------------------- properties
\* process p sends the response of a request for operation op
Completes(p, op) == pc[p] # "idle" /\ pc'[p] = "idle" /\ input[p].op = op

\* the entry appended by a step that appends to activity_logs
Appended == logs'[Len(logs')]

\* C1: when requests are served one at a time, no two rows of radius_users
\* hold the same username.
C1_UniqueUsernames ==
  \A u, v \in users : u.username = v.username => u = v

\* two accounts exist and a createRadiusUser for a held username was refused
C1_Witness ==
  /\ Cardinality(users) >= 2
  /\ response.op = "createRadiusUser"
  /\ response.status = "error"
  /\ \E name \in Usernames : response.msg = <<"Username", name, "already exists">>

\* C2: when requests are served one at a time, the profile_id of every row
\* of radius_users is the id of a row of radius_profiles.
C2_ProfileRefsResolve ==
  \A u \in users : u.profile_id \in profiles

\* a deleteRadiusProfile was refused while an account that an updateRadiusUser
\* has written references the profile
C2_Witness ==
  /\ response.op = "deleteRadiusProfile"
  /\ response.status = "error"
  /\ response.msg[1] = "Cannot delete profile:"
  /\ \E u \in users : u.profile_id \in profiles /\ u.status = "suspended"

\* C3: also when two createRadiusUser requests for the same username overlap,
\* the later insert is rejected, so that at most one row per username is ever
\* in radius_users.
C3_LateInsertRejected ==
  \A name \in Usernames : Cardinality({u \in users : u.username = name}) <= 1

\* C4: a deleteRadiusProfile for a profile that exists and that N > 0 accounts
\* reference throws "Cannot delete profile: N users are still using this
\* profile" and leaves radius_profiles as it was; when no account references
\* the profile it returns success and the profile is gone.
C4_DeleteProfileGuard ==
  [][\A p \in Procs :
       (Completes(p, "deleteRadiusProfile") /\ input[p].id \in pre[p].profiles) =>
         LET N == Cardinality({u \in pre[p].users : u.profile_id = input[p].id})
         IN IF N > 0
            THEN /\ response'.status = "error"
                 /\ response'.msg = <<"Cannot delete profile:", ToString(N),
                                      "users are still using this profile">>
                 /\ profiles' = pre[p].profiles
            ELSE /\ response'.status = "ok"
                 /\ input[p].id \notin profiles'
                 /\ profiles' = pre[p].profiles \ {input[p].id}]_vars

\* a deleteRadiusProfile was refused with a count of two dependent accounts
C4_Witness ==
  /\ response.op = "deleteRadiusProfile"
  /\ response.msg = <<"Cannot delete profile:", "2", "users are still using this profile">>
  /\ \E id \in profiles : Cardinality({u \in users : u.profile_id = id}) = 2

\* C5: a createRadiusUser whose profile_id is the id of an existing profile and
\* whose username is unused returns the new account; one whose profile_id is
\* not the id of a profile throws "Profile with ID <id> does not exist" and
\* leaves radius_users and activity_logs as they were.
C5_CreateChecksProfile ==
  [][\A p \in Procs :
       Completes(p, "createRadiusUser") =>
         /\ input[p].profile_id \notin pre[p].profiles =>
              /\ response'.status = "error"
              /\ response'.msg = <<"Profile with ID", ToString(input[p].profile_id),
                                   "does not exist">>
              /\ users' = pre[p].users
              /\ logs' = pre[p].logs
         /\ ( /\ input[p].profile_id \in pre[p].profiles
              /\ \A u \in pre[p].users : u.username # input[p].username ) =>
              /\ response'.status = "ok"
              /\ \E r \in users' \ pre[p].users :
                   /\ r.username = input[p].username
                   /\ r.profile_id = input[p].profile_id
                   /\ response'.rows = {r}]_vars

\* a createRadiusUser naming a profile that does not exist was refused
C5_Witness ==
  /\ response.op = "createRadiusUser"
  /\ response.status = "error"
  /\ \E id \in ProfileIdArgs \ profiles :
       response.msg = <<"Profile with ID", ToString(id), "does not exist">>

\* the username of the request of p is held when the request arrives
UsernameHeld(p) == \E u \in pre[p].users : u.username = input[p].username

\* the username of the request of p was held by an account that is gone
UsernameReleased(p) ==
  /\ ~UsernameHeld(p)
  /\ \E i \in 1..Len(pre[p].logs) : pre[p].logs[i].username = input[p].username

\* C6 as stated: every createRadiusUser for a held username throws "Username
\* <username> already exists" and creates nothing, and every createRadiusUser
\* for a username whose account was deleted succeeds.
C6_HeldUsernameConflicts ==
  [][\A p \in Procs :
       Completes(p, "createRadiusUser") =>
         /\ UsernameHeld(p) =>
              /\ response'.status = "error"
              /\ response'.msg = <<"Username", input[p].username, "already exists">>
              /\ users' = pre[p].users
              /\ logs' = pre[p].logs
         /\ UsernameReleased(p) => response'.status = "ok"]_vars

\* C6 amended: a createRadiusUser whose profile_id resolves and whose username
\* is held throws "Username <username> already exists" and creates nothing;
\* once the holder has been deleted, a createRadiusUser with that username and
\* a profile_id that resolves succeeds.
C6_HeldUsernameConflictsIfProfileExists ==
  [][\A p \in Procs :
       (Completes(p, "createRadiusUser") /\ input[p].profile_id \in pre[p].profiles) =>
         /\ UsernameHeld(p) =>
              /\ response'.status = "error"
              /\ response'.msg = <<"Username", input[p].username, "already exists">>
              /\ users' = pre[p].users
              /\ logs' = pre[p].logs
         /\ UsernameReleased(p) =>
              /\ response'.status = "ok"
              /\ \E r \in users' \ pre[p].users : r.username = input[p].username]_vars

\* an account was created, deleted, and its username was given to a new account
C6_Witness ==
  /\ response.op = "createRadiusUser"
  /\ response.status = "ok"
  /\ Len(logs) = 3
  /\ \E r \in response.rows :
       /\ r \in users
       /\ logs[1].username = r.username /\ logs[1].action = "account_created"
       /\ logs[2].username = r.username /\ logs[2].user_id = logs[1].user_id
       /\ logs[3].username = r.username /\ logs[3].user_id = r.id
       /\ logs[1].user_id # r.id
       /\ \A u \in users : u.id # logs[1].user_id

\* C7: the update statement of an updateRadiusUser that carries a password
\* leaves a stored hash that differs from the previous one, that verifies
\* against the new secret and that does not verify against the old secret.
C7_UpdateRehashes ==
  [][\A p \in Procs :
       (pc[p] = "uu_update" /\ pc'[p] = "uu_insertLog" /\ "password" \in input[p].present) =>
         \A u \in users, v \in users' :
           (u.id = input[p].id /\ v.id = input[p].id) =>
             /\ v.password # u.password
             /\ verifyPassword(input[p].password, v.password)
             /\ (plain[u.id] # input[p].password =>
                   ~verifyPassword(plain[u.id], v.password))]_vars

\* C8: two hashing events of the same secret give different stored hashes,
\* each hash verifies against its secret and against no other secret.
C8_SaltedHashes ==
  \A i, j \in 1..Len(hashLog) :
    /\ (i < j /\ hashLog[i].secret = hashLog[j].secret) =>
         hashLog[i].hash # hashLog[j].hash
    /\ verifyPassword(hashLog[i].secret, hashLog[i].hash)
    /\ \A other \in Passwords \ {hashLog[i].secret} :
         ~verifyPassword(other, hashLog[i].hash)

\* C9: the password column of an account never holds the secret that was
\* supplied for it, and no response carries a secret.
C9_NoPlaintext ==
  /\ \A u \in users : u.password # plain[u.id] /\ u.password \notin Passwords
  /\ \A r \in response.rows :
       "password" \in DOMAIN r => r.password \notin Passwords
  /\ response.msg \notin Passwords

\* an updateRadiusUser that carried a secret has returned the account
C9_Witness ==
  /\ response.op = "updateRadiusUser"
  /\ response.status = "ok"
  /\ \E r \in response.rows :
       /\ r \in users
       /\ r.password = <<"md5[">> \o plain[r.id] \o <<"]">>

\* C10: a createRadiusUser that succeeds returns an account whose status is
\* active, and between its arrival and its return exactly one entry is
\* appended to activity_logs: action account_created, user_id and username
\* of the new account.  An account_created entry is appended only when the
\* row it names is already in radius_users.
C10_CreateLogsOnce ==
  [][/\ \A p \in Procs :
          (Completes(p, "createRadiusUser") /\ response'.status = "ok") =>
            \E r \in response'.rows :
              /\ response'.rows = {r}
              /\ r.status = "active"
              /\ r \in users'
              /\ \A u \in pre[p].users : u.id # r.id
              /\ Len(logs') = Len(pre[p].logs) + 1
              /\ SubSeq(logs', 1, Len(pre[p].logs)) = pre[p].logs
              /\ Appended.action = "account_created"
              /\ Appended.user_id = r.id
              /\ Appended.username = r.username
     /\ (Len(logs') > Len(logs) /\ Appended.action = "account_created") =>
          \E u \in users : u.id = Appended.user_id /\ u.username = Appended.username]_vars

\* a createRadiusUser has returned the new account and its entry is the last
\* entry of activity_logs
C10_Witness ==
  /\ response.op = "createRadiusUser"
  /\ response.status = "ok"
  /\ Len(logs) > 0
  /\ \E r \in response.rows :
       /\ r.status = "active"
       /\ logs[Len(logs)].user_id = r.id
       /\ logs[Len(logs)].action = "account_created"

\* C11: when the insert into activity_logs of a createRadiusUser fails after
\* the row was inserted into radius_users, the caller gets the error, and the
\* new row stays in radius_users.
C11_LogFailureKeepsAccount ==
  [][\A p \in Procs :
       (pc[p] = "cu_insertLog" /\ pc'[p] = "idle" /\ logs' = logs) =>
         /\ response'.status = "error"
         /\ response'.msg = <<"Failed query: insert into activity_logs">>
         /\ users' = users
         /\ \E r \in users' :
              /\ r.username = input[p].username
              /\ \A u \in pre[p].users : u.id # r.id]_vars

\* a createRadiusUser has failed on its log insert: the account is stored and
\* no entry of activity_logs names it
C11_Witness ==
  /\ response.op = "createRadiusUser"
  /\ response.status = "error"
  /\ response.msg = <<"Failed query: insert into activity_logs">>
  /\ \E r \in users :
       /\ r.username = "alice"
       /\ \A i \in 1..Len(logs) : logs[i].user_id # r.id

\* the columns of radius_users an updateRadiusUser may set
C12_Settable == {"password", "profile_id", "full_name", "status"}

\* C12: an updateRadiusUser leaves every other row as it was and leaves the
\* username and every column that is not present in the request as they were;
\* when it succeeds each present column holds the supplied value (password:
\* the hash computed from the supplied secret), and a full_name supplied as
\* null is null.
C12_UpdateFrame ==
  [][\A p \in Procs :
       Completes(p, "updateRadiusUser") =>
         \A u \in pre[p].users :
           IF u.id # input[p].id
           THEN u \in users'
           ELSE \E v \in users' :
                  /\ v.id = u.id
                  /\ \A w \in users' : w.id = u.id => w = v
                  /\ v.username = u.username
                  /\ \A f \in C12_Settable \ input[p].present : v[f] = u[f]
                  /\ response'.status = "ok" =>
                       /\ \A f \in input[p].present \ {"password"} : v[f] = input[p][f]
                       /\ "password" \in input[p].present =>
                            \E i \in 1..Len(hashLog') :
                              hashLog'[i] = [secret |-> input[p].password,
                                             hash |-> v.password]
                       /\ ("full_name" \in input[p].present /\ input[p].full_name = "NULL")
                            => v.full_name = "NULL"]_vars

\* an updateRadiusUser has nulled full_name and suspended the account, and the
\* stored password is still the salted hash of createRadiusUser
C12_Witness ==
  /\ response.op = "updateRadiusUser"
  /\ response.status = "ok"
  /\ \E r \in response.rows :
       /\ r \in users
       /\ r.full_name = "NULL"
       /\ r.status = "suspended"
       /\ Len(split(r.password)) = 2

\* C13: an updateRadiusUser for an id that is not in radius_users throws
\* "Radius user with id <id> not found"; one for an existing id that carries a
\* profile_id that is not in radius_profiles throws "Radius profile with id
\* <profile_id> not found"; both leave radius_users and activity_logs as they
\* were.
C13_UpdateValidates ==
  [][\A p \in Procs :
       Completes(p, "updateRadiusUser") =>
         LET found == \E u \in pre[p].users : u.id = input[p].id
         IN /\ ~found =>
                 /\ response'.status = "error"
                 /\ response'.msg = <<"Radius user with id", ToString(input[p].id),
                                      "not found">>
                 /\ users' = pre[p].users
                 /\ logs' = pre[p].logs
            /\ ( /\ found
                 /\ "profile_id" \in input[p].present
                 /\ input[p].profile_id \notin pre[p].profiles ) =>
                 /\ response'.status = "error"
                 /\ response'.msg = <<"Radius profile with id",
                                      ToString(input[p].profile_id), "not found">>
                 /\ users' = pre[p].users
                 /\ logs' = pre[p].logs]_vars

\* an updateRadiusUser for an existing account was refused for its profile_id
C13_Witness ==
  /\ response.op = "updateRadiusUser"
  /\ response.status = "error"
  /\ response.msg = <<"Radius profile with id", "2", "not found">>
  /\ users # {}
  /\ Len(logs) > 0

\* C14: between the arrival and the return of an updateRadiusUser that
\* succeeds exactly one entry is appended to activity_logs: action
\* account_updated, user_id and username of the account.  The entry is
\* appended when the row already holds the values of the request.
C14_UpdateLogsOnce ==
  [][\A p \in Procs :
       /\ (Completes(p, "updateRadiusUser") /\ response'.status = "ok") =>
            /\ Len(logs') = Len(pre[p].logs) + 1
            /\ SubSeq(logs', 1, Len(pre[p].logs)) = pre[p].logs
            /\ Appended.action = "account_updated"
            /\ Appended.user_id = input[p].id
            /\ \E u \in pre[p].users :
                 u.id = input[p].id /\ Appended.username = u.username
       /\ (input[p].op = "updateRadiusUser" /\ Len(logs') > Len(logs)) =>
            \E r \in users :
              /\ r.id = input[p].id
              /\ \A f \in input[p].present \ {"password"} : r[f] = input[p][f]
              /\ "password" \in input[p].present =>
                   \E i \in 1..Len(hashLog) :
                     hashLog[i] = [secret |-> input[p].password, hash |-> r.password]]_vars

\* an updateRadiusUser has returned the account and its entry is the last
\* entry of activity_logs, after the entry of the createRadiusUser
C14_Witness ==
  /\ response.op = "updateRadiusUser"
  /\ response.status = "ok"
  /\ Len(logs) >= 2
  /\ \E r \in response.rows :
       /\ r \in users
       /\ logs[Len(logs)] = [id |-> Len(logs), user_id |-> r.id,
                             username |-> r.username, action |-> "account_updated",
                             created_at |-> clock]
       /\ logs[Len(logs) - 1].action = "account_created"

\* C15: deleteRadiusUser appends its entry while the row is still in
\* radius_users, and the statement that removes the row leaves activity_logs
\* as it is: the entries that were there when the request arrived, those of
\* the account among them, are there afterwards, unchanged, followed by the
\* entry of the delete with the username of the account.
C15_DeleteLogsFirst ==
  [][\A p \in Procs :
       input[p].op = "deleteRadiusUser" =>
         /\ Len(logs') > Len(logs) =>
              /\ users' = users
              /\ \E u \in users :
                   /\ u.id = input[p].id
                   /\ logs' = Append(logs, [id |-> Len(logs) + 1, user_id |-> u.id,
                                            username |-> u.username,
                                            action |-> "account_updated",
                                            created_at |-> clock])
         /\ users' # users =>
              /\ logs' = logs
              /\ Len(logs) = Len(pre[p].logs) + 1
              /\ SubSeq(logs, 1, Len(pre[p].logs)) = pre[p].logs
              /\ logs[Len(logs)].user_id = input[p].id
              /\ \E u \in users :
                   /\ u.id = input[p].id
                   /\ users' = users \ {u}
                   /\ logs[Len(logs)].username = u.username
         /\ (pc'[p] = "idle" /\ response'.status = "ok") =>
              /\ SubSeq(logs', 1, Len(pre[p].logs)) = pre[p].logs
              /\ \A u \in users' : u.id # input[p].id]_vars

\* a deleteRadiusUser has returned: the account is gone, and the entry of its
\* createRadiusUser and the entry of the delete are in activity_logs with its
\* username
C15_Witness ==
  /\ response.op = "deleteRadiusUser"
  /\ response.status = "ok"
  /\ \E i, j \in 1..Len(logs) :
       /\ i < j
       /\ j = Len(logs)
       /\ logs[i].action = "account_created"
       /\ logs[j].action = "account_updated"
       /\ logs[i].user_id = logs[j].user_id
       /\ logs[i].username = logs[j].username
       /\ \A u \in users : u.id # logs[i].user_id

\* C16: when a deleteRadiusUser for id has returned, no entry of
\* activity_logs carries user_id = id.
C16_UserIdNulled ==
  [][\A p \in Procs :
       (Completes(p, "deleteRadiusUser") /\ response'.status = "ok") =>
         \A i \in 1..Len(logs') : logs'[i].user_id # input[p].id]_vars

\* C17: a step that changes activity_logs appends one entry and leaves the
\* entries before it as they were, and it is the log insert of a
\* createRadiusUser, an updateRadiusUser or a deleteRadiusUser; no step of a
\* device or profile operation changes activity_logs.
C17_LogAppendOnly ==
  [][logs' # logs =>
       /\ Len(logs') = Len(logs) + 1
       /\ SubSeq(logs', 1, Len(logs)) = logs
       /\ \E p \in Procs :
            /\ pc'[p] # pc[p]
            /\ pc[p] \in {"cu_insertLog", "uu_insertLog", "du_insertLog"}
            /\ input[p].op \in {"createRadiusUser", "updateRadiusUser",
                                "deleteRadiusUser"}]_vars

\* activity_logs holds entries, a profile was created and deleted, a device
\* is registered and a refreshDeviceStatus has returned it
C17_Witness ==
  /\ Len(logs) >= 2
  /\ profiles = {}
  /\ nextProfileId > 1
  /\ response.op = "refreshDeviceStatus"
  /\ response.status = "ok"
  /\ response.rows # {}
  /\ response.rows \subseteq devices

\* C18: a createMikrotikDevice returns the row it has added to
\* mikrotik_devices: status offline, an id that no row had when the request
\* arrived, created_at equal to updated_at, name and ip_address of the
\* request, whether or not a row with that name or ip_address exists.
C18_RegisterDevice ==
  [][\A p \in Procs :
       Completes(p, "createMikrotikDevice") =>
         /\ response'.status = "ok"
         /\ \E d \in response'.rows :
              /\ response'.rows = {d}
              /\ devices' = pre[p].devices \cup {d}
              /\ \A e \in pre[p].devices : e.id # d.id
              /\ d.status = "offline"
              /\ d.created_at = d.updated_at
              /\ d.name = input[p].name
              /\ d.ip_address = input[p].ip_address]_vars

\* a createMikrotikDevice has returned a device whose name and ip_address an
\* earlier device holds
C18_Witness ==
  /\ response.op = "createMikrotikDevice"
  /\ response.status = "ok"
  /\ \E d \in response.rows, e \in devices :
       /\ d \in devices
       /\ e.id < d.id
       /\ e.name = d.name
       /\ e.ip_address = d.ip_address
       /\ e.created_at < d.created_at
       /\ d.status = "offline"

\* C19: an updateMikrotikDevice for a device that exists returns the row:
\* name and ip_address hold the value of the request where the field is
\* present and their previous value where it is not, status and created_at
\* are as before, and updated_at is a time read while the request was served;
\* every other row is as it was.
C19_UpdateDeviceFrame ==
  [][\A p \in Procs :
       Completes(p, "updateMikrotikDevice") =>
         \A d \in pre[p].devices :
           IF d.id # input[p].id
           THEN d \in devices'
           ELSE /\ response'.status = "ok"
                /\ \E e \in devices' :
                     /\ response'.rows = {e}
                     /\ e.id = d.id
                     /\ \A x \in devices' : x.id = d.id => x = e
                     /\ \A f \in {"name", "ip_address"} :
                          e[f] = IF f \in input[p].present THEN input[p][f] ELSE d[f]
                     /\ e.status = d.status
                     /\ e.created_at = d.created_at
                     /\ pre[p].clock <= e.updated_at
                     /\ e.updated_at <= clock']_vars

\* an updateMikrotikDevice that carried neither name nor ip_address has moved
\* updated_at of a device that was never refreshed
C19_Witness ==
  /\ response.op = "updateMikrotikDevice"
  /\ response.status = "ok"
  /\ \E e \in response.rows :
       /\ e \in devices
       /\ e.name = "r1"
       /\ e.ip_address = "192.168.1.1"
       /\ e.status = "offline"
       /\ e.updated_at > e.created_at

\* C20: a refreshDeviceStatus for a device that exists returns the row with a
\* status of the device_status enum: online when the connection check
\* resolved to true, offline when it resolved to false, and error when it
\* rejected, in which case the request still succeeds.
C20_RefreshStatusMaps ==
  [][\A p \in Procs :
       ( /\ Completes(p, "refreshDeviceStatus")
         /\ \E d \in pre[p].devices : d.id = input[p].device_id ) =>
         /\ response'.status = "ok"
         /\ \E e \in devices' :
              /\ response'.rows = {e}
              /\ e.id = input[p].device_id
              /\ e.status \in {"online", "offline", "error"}
              /\ local[p].check \in {"true", "false", "rejected"}
              /\ local[p].check = "true" => e.status = "online"
              /\ local[p].check = "false" => e.status = "offline"
              /\ local[p].check = "rejected" => e.status = "error"]_vars

\* a refreshDeviceStatus whose connection check rejected has returned the
\* device with status error
C20_Witness ==
  /\ response.op = "refreshDeviceStatus"
  /\ response.status = "ok"
  /\ \E e \in response.rows :
       /\ e \in devices
       /\ e.ip_address = "192.168.1.500"
       /\ e.status = "error"

\* C21: the update statement of a refreshDeviceStatus changes no column of
\* the row other than status and updated_at and changes no other row: name,
\* ip_address and created_at are what they were just before the statement,
\* also when an updateMikrotikDevice has written the row after the refresh
\* has read it.
C21_RefreshKeepsFields ==
  [][\A p \in Procs :
       (pc[p] = "rd_update" /\ pc'[p] = "idle") =>
         \A d \in devices :
           IF d.id # input[p].device_id
           THEN d \in devices'
           ELSE \E e \in devices' :
                  /\ response'.rows = {e}
                  /\ e.id = d.id
                  /\ \A x \in devices' : x.id = d.id => x = e
                  /\ e.name = d.name
                  /\ e.ip_address = d.ip_address
                  /\ e.created_at = d.created_at
                  /\ e.status \in {"online", "offline", "error"}]_vars

\* a refreshDeviceStatus that had read the device at 192.168.1.1 has returned
\* it with the name and the address that an updateMikrotikDevice wrote in
\* between
C21_Witness ==
  /\ response.op = "refreshDeviceStatus"
  /\ response.status = "ok"
  /\ \E e \in response.rows :
       /\ e \in devices
       /\ e.name = "r2"
       /\ e.ip_address = "192.168.1.500"
       /\ e.status = "online"

\* C22: updateRadiusProfile on an existing profile changes exactly the fields
\* present in the request.  The other profiles, and the id, the creation
\* timestamp and every absent field of the profile keep their values from
\* before the request; a present field takes the supplied value, a null
\* included, and a supplied 0 is stored as 0 (as the text 0.00 for the price);
\* upload_speed is a number afterwards.  A request that names no field fails
\* and changes nothing.
C22_UpdateProfileFrame ==
  [][\A p \in Procs :
       (Completes(p, "updateRadiusProfile") /\ input[p].id \in pre[p].profiles) =>
         LET in == input[p]
             old == pre[p].profileCols[in.id]
             ok == response'.status = "ok"
         IN /\ ok <=> in.present # {}
            /\ profiles' = pre[p].profiles
            /\ \A id \in profiles' \ {in.id} :
                 profileCols'[id] = pre[p].profileCols[id]
            /\ LET new == profileCols'[in.id]
               IN /\ new.created_at = old.created_at
                  /\ new.name = IF "name" \in in.present THEN in.name ELSE old.name
                  /\ new.upload_speed = IF "upload_speed" \in in.present
                                        THEN in.upload_speed ELSE old.upload_speed
                  /\ new.upload_speed \in Nat
                  /\ new.session_timeout = IF "session_timeout" \in in.present
                                           THEN in.session_timeout
                                           ELSE old.session_timeout
                  /\ new.price =
                       IF "price" \notin in.present THEN old.price
                       ELSE IF in.price = <<>> THEN <<>>
                       ELSE <<in.price[1] \div 100, (in.price[1] % 100) \div 10,
                              in.price[1] % 10>>]_vars

\* a profile created with a timeout and a price has both set to 0 by an update
\* that names no other field
C22_Witness ==
  /\ response.op = "updateRadiusProfile"
  /\ response.status = "ok"
  /\ 1 \in profiles
  /\ profileCols[1].name = "basic"
  /\ profileCols[1].upload_speed = 1024
  /\ profileCols[1].session_timeout = <<0>>
  /\ profileCols[1].price = <<0, 0, 0>>
  /\ profileCols[1].created_at < clock

\* C23: a profile created with a price, 0 included, or with a null price is
\* returned by createRadiusProfile with exactly that price and with the
\* upload_speed supplied, and its row reads back through the conversion of
\* getRadiusProfiles as that price.
C23_PriceRoundTrip ==
  [][\A p \in Procs :
       Completes(p, "createRadiusProfile") =>
         \E r \in response'.rows :
           /\ response'.rows = {r}
           /\ r.upload_speed = input[p].upload_speed
           /\ r.price = input[p].price
           /\ r.id \in profiles'
           /\ returnedProfile(r.id, profileCols'[r.id]).price = input[p].price]_vars

\* C24: getActivityLogs returns exactly the entries that satisfy every
\* predicate present in the filter (username and action equal to the given
\* ones, creation time at least start_date and at most end_date), an absent
\* predicate restricting nothing, ordered by non-increasing creation time,
\* without the first `offset` of them and at most `limit` of them, where an
\* absent limit is 100 and an absent offset is 0.
C24_QueryReturnsMatches ==
  [][\A p \in Procs :
       Completes(p, "getActivityLogs") =>
         LET f == input[p].filter
             limit == IF f.limit = <<>> THEN 100 ELSE f.limit[1]
             offset == IF f.offset = <<>> THEN 0 ELSE f.offset[1]
             sat == {logs[i] : i \in {k \in 1..Len(logs) :
                       /\ f.username # <<>> => logs[k].username = f.username[1]
                       /\ f.action # <<>> => logs[k].action = f.action[1]
                       /\ f.start_date # <<>> => logs[k].created_at >= f.start_date[1]
                       /\ f.end_date # <<>> => logs[k].created_at <= f.end_date[1]}}
         IN /\ response'.status = "ok"
            /\ \E full \in orderings(sat) :
                 response'.rows =
                   SubSeq(full, offset + 1,
                          IF offset + limit < Len(full) THEN offset + limit
                          ELSE Len(full))]_vars

\* C25: when getActivityLogs has returned the page at offset 0 of a filter
\* with limit L and, the log being the same, returns the page at offset L of
\* the same filter, the two pages share no entry and, one after the other, are
\* the first 2L entries of the matching entries in an order of non-increasing
\* creation time.
C25_PagesPartition ==
  [][\A p \in Procs :
       (/\ Completes(p, "getActivityLogs")
        /\ lastQuery.asked
        /\ lastQuery.logs = logs
        /\ filterDefaults(input[p].filter) =
             [lastQuery.filter EXCEPT !.offset = lastQuery.filter.limit]) =>
         LET first == lastQuery.rows
             second == response'.rows
             L == lastQuery.filter.limit[1]
             sat == {logs[i] : i \in {k \in 1..Len(logs) :
                                        matches(logs[k], lastQuery.filter)}}
         IN /\ \A i \in DOMAIN first, j \in DOMAIN second : first[i] # second[j]
            /\ \E full \in orderings(sat) :
                 first \o second =
                   SubSeq(full, 1, IF 2 * L < Len(full) THEN 2 * L ELSE Len(full))]_vars

\* C26: while deleteRadiusProfile for a profile runs concurrently with a
\* createRadiusUser or an updateRadiusUser that assigns that profile, no state
\* is reached in which the profile has been deleted and an account refers to
\* it.
C26_NoAccountOnDeletedProfile ==
  \A id \in 1..MaxProfiles :
    (id < nextProfileId /\ id \notin profiles) =>
      {u \in users : u.profile_id = id} = {}

\* C28: of two concurrent deleteRadiusUser requests for the same id at most
\* one succeeds and at most one writes an entry for the removal, and the
\* other fails with the not-found error: a request writes its entry only
\* while no other request for the id has written one and is about to remove
\* the row, a request that succeeds has removed the row itself, and a request
\* that fails reports that the account was not found.
C28_OneDeleteWins ==
  [][\A p \in Procs :
       input[p].op = "deleteRadiusUser" =>
         /\ (pc[p] = "du_insertLog" /\ pc'[p] = "du_delete") =>
              \A q \in Procs \ {p} :
                ~(pc[q] = "du_delete" /\ input[q].id = input[p].id)
         /\ (pc[p] # "idle" /\ pc'[p] = "idle" /\ response'.status = "ok") =>
              \E u \in users : u.id = input[p].id /\ u \notin users'
         /\ (pc[p] # "idle" /\ pc'[p] = "idle" /\ response'.status = "error") =>
              response'.msg =
                <<"Radius user with id", ToString(input[p].id), "not found">>]_vars

\* C29: when the row of an account has been removed by a concurrent
\* deleteRadiusUser after updateRadiusUser has found it and before its update
\* statement runs, the update statement matches no row: the request ends with
\* an error, radius_users is left without the account and activity_logs is
\* left as it is, so no account_updated entry is written for the update.
C29_UpdateAfterDeleteFails ==
  [][\A p \in Procs :
       (/\ pc[p] = "uu_update"
        /\ pc'[p] # "uu_update"
        /\ {u \in users : u.id = input[p].id} = {}) =>
         /\ pc'[p] = "idle"
         /\ response'.op = "updateRadiusUser"
         /\ response'.status = "error"
         /\ users' = users
         /\ logs' = logs]_vars

\* an updateRadiusUser has failed on an account that a deleteRadiusUser
\* removed after the update had found it
C29_Witness ==
  /\ response.op = "updateRadiusUser"
  /\ response.status = "error"
  /\ response.msg = <<"TypeError">>
  /\ {u \in users : u.id = 1} = {}
  /\ \E i \in 1..Len(logs) : logs[i].user_id = 1 /\ logs[i].action = "account_updated"

\* C27: a request that fails a validation (a device, profile or account that
\* is not found, a profile reference that does not resolve, a username that
\* is taken, a profile that accounts still use) has written nothing: when its
\* error is returned, mikrotik_devices, radius_profiles, radius_users and
\* activity_logs are as they were when the request arrived.
C27_FailedValidationWritesNothing ==
  [][\A p \in Procs :
       (/\ pc[p] # "idle"
        /\ pc'[p] = "idle"
        /\ response'.status = "error"
        /\ response'.msg[1] \in
             {"Mikrotik device with id", "Device with ID", "Radius profile with id",
              "Radius user with id", "Profile with ID", "Username",
              "Cannot delete profile:"}) =>
         /\ devices' = pre[p].devices
         /\ profiles' = pre[p].profiles
         /\ profileCols' = pre[p].profileCols
         /\ users' = pre[p].users
         /\ logs' = pre[p].logs]_vars

\* an updateRadiusUser of an existing account was refused because the profile
\* it assigns does not exist
C27_Witness ==
  /\ response.op = "updateRadiusUser"
  /\ response.status = "error"
  /\ response.msg = <<"Radius profile with id", ToString(MaxProfiles + 1), "not found">>
  /\ \E u \in users : u.id = 1 /\ u.profile_id = 1
  /\ 1 \in profiles
  /\ Len(logs) > 0

\* C30: the handlers write only two actions into activity_logs: each entry
\* appended is written by createRadiusUser with action account_created, or by
\* updateRadiusUser or deleteRadiusUser with action account_updated; an update
\* that sets the status to suspended writes account_updated as well, so no
\* entry has the action account_suspended.
C30_OnlyCreatedAndUpdated ==
  [][/\ logs' # logs =>
          /\ Len(logs') = Len(logs) + 1
          /\ \E p \in Procs :
               /\ pc'[p] # pc[p]
               /\ \/ /\ input[p].op = "createRadiusUser"
                     /\ logs'[Len(logs')].action = "account_created"
                  \/ /\ input[p].op \in {"updateRadiusUser", "deleteRadiusUser"}
                     /\ logs'[Len(logs')].action = "account_updated"
     /\ \A i \in 1..Len(logs') :
          logs'[i].action \in {"account_created", "account_updated"}]_vars

\* an update has suspended an account and its entry is an account_updated one
C30_Witness ==
  /\ response.op = "updateRadiusUser"
  /\ response.status = "ok"
  /\ Len(logs) >= 2
  /\ \E u \in response.rows :
       /\ u \in users
       /\ u.status = "suspended"
       /\ logs[Len(logs)].user_id = u.id
       /\ logs[Len(logs)].action = "account_updated"
       /\ logs[1].action = "account_created"
====
